---- MODULE Spec2Model ----
(***************************************************************************)
(* bytes-inverse: an order-inverting, self-framing byte transform.         *)
(* core::map<N> encodes a byte string, core::unmap<N> decodes and          *)
(* validates it.  Both are pure; the state machine below is a caller that  *)
(* picks a group size and inputs and applies the two functions.            *)
(***************************************************************************)
EXTENDS Integers, Sequences, FiniteSets, TLC

VARIABLES N, a, b, y, ma, mb, res, panic, pc

vars == <<N, a, b, y, ma, mb, res, panic, pc>>

---------------------------------------------------------------------------
(* Bounds of the model *)

\* small group sizes 1..MaxN are explored exhaustively
MaxN == 2
\* raw inputs have at most MaxLen bytes
MaxLen == 4
\* arbitrary (possibly malformed) decoder inputs have at most MaxFramedLen bytes
MaxFramedLen == 6
\* the constant-valued decoder inputs of the tests have at most MaxRun bytes
MaxRun == 18

(* Program constants *)

\* Assert::<N>::ASSERT : 0 < N && N < 255, so the largest valid N is 254
MaxGroup == 254
\* the group size of the convenience wrappers map / unmap
DefaultN == 8

\* byte values used for raw inputs: lowest, two neighbours, highest
RawBytes == {0, 97, 255}
\* byte values used for decoder inputs: delimiter, ending markers, filler
FramedBytes == {0, 1, 2, 3, 255}
\* byte values of the constant-valued decoder inputs ([1; 18], [2; 9], [10; 9], "xxxxxxxx")
RunBytes == {0, 1, 2, 9, 10, 120, 255}

SeqsUpTo(S, n) == UNION {[1..k -> S] : k \in 0..n}

Repeat(v, k) == [i \in 1..k |-> v]

SmallSizes == 1..MaxN
GroupSizes == SmallSizes \cup {DefaultN, MaxGroup}
RawInputs == SeqsUpTo(RawBytes, MaxLen)
FramedInputs == SeqsUpTo(FramedBytes, MaxFramedLen)
RunInputs == {Repeat(v, k) : v \in RunBytes, k \in 0..MaxRun}

---------------------------------------------------------------------------
(* u8 and Vec<u8> primitives *)

\* mutant: the complement is left out
Not_id(val) == val

\* `!val` on a u8
Not(val) == 255 - val

\* `x as u8`
AsU8(x) == x % 256

\* Vec::resize(new_len, value): truncates or extends with value
Resize(out, new_len, value) ==
  IF new_len <= Len(out)
  THEN SubSeq(out, 1, new_len)
  ELSE out \o [i \in 1..(new_len - Len(out)) |-> value]

\* Ord on Vec<u8> / [u8]: lexicographic, a proper prefix is smaller
Less(s, t) ==
  \/ /\ Len(s) < Len(t)
     /\ \A j \in 1..Len(s) : s[j] = t[j]
  \/ \E i \in 1..Len(s) :
        /\ i <= Len(t)
        /\ s[i] < t[i]
        /\ \A j \in 1..(i - 1) : s[j] = t[j]

---------------------------------------------------------------------------
(* core::map *)

\* std::cmp::max
Max(x, z) == IF x >= z THEN x ELSE z

\* mutant: rounds up with N instead of N - 1
map_len_plus(n, bytes) == ((Max(Len(bytes), 1) + n) \div n) * (n + 1)

\* let len = (max(bytes.len(), 1) + N - 1) / N * (N + 1);
map_len(n, bytes) == ((Max(Len(bytes), 1) + n - 1) \div n) * (n + 1)

\* mutant: a non-zero delimiter
Delimiter_one == 0 + 1

\* out.push(0): the control byte closing a non-final block
Delimiter == 0

\* mutant: pads with 0 instead of !0
Filler_zero == Not(255)

\* `!0`: the value out.resize pads the final block with
Filler == Not(0)

\* mutant: stores the padding count itself
EndingMarker_m(m) == AsU8(m)

\* out.push((m + 1) as u8): the control byte of the final block
EndingMarker(m) == AsU8(m + 1)

\* for (idx, val) in bytes.iter().enumerate() { ... }, from index idx on
RECURSIVE map_loop(_, _, _, _)
map_loop(n, bytes, idx, out) ==
  IF idx >= Len(bytes) THEN out
  ELSE LET val == bytes[idx + 1]
           out1 == IF idx # 0 /\ idx % n = 0 THEN Append(out, Delimiter) ELSE out
       IN map_loop(n, bytes, idx + 1, Append(out1, Not(val)))

\* let m = len - 1 - out.len(): the usize subtraction would overflow
map_overflows(n, bytes) ==
  map_len(n, bytes) - 1 < Len(map_loop(n, bytes, 0, <<>>))

map(n, bytes) ==
  LET len == map_len(n, bytes)
      out == map_loop(n, bytes, 0, <<>>)
      m == len - 1 - Len(out)
  IN Append(Resize(out, len - 1, Filler), EndingMarker(m))

---------------------------------------------------------------------------
(* core::Error and core::unmap *)

Ok(out) == [kind |-> "Ok", val |-> out]
EmptyBytes == [kind |-> "EmptyBytes"]
InvalidLength(len, n) == [kind |-> "InvalidLength", len |-> len, n |-> AsU8(n)]
InvalidDelimiter(pos, val) == [kind |-> "InvalidDelimiter", pos |-> pos, val |-> val]
InvalidPadding(pos, val) == [kind |-> "InvalidPadding", pos |-> pos, val |-> val]
InvalidEnding(val) == [kind |-> "InvalidEnding", val |-> AsU8(val)]
\* an out-of-range index or an overflowing usize subtraction
Panic == [kind |-> "Panic"]

\* mutant: rejects the marker N + 1 of an all-padding block
BadEnding_tight(n, last) == last = 0 \/ last > n

\* mutant: accepts the marker N + 2
BadEnding_loose(n, last) == last = 0 \/ last > n + 2

\* mutant: does not reject the marker 0
BadEnding_nozero(n, last) == last > n + 1

\* if last == 0 || last > N + 1 { return Err(InvalidEnding) }
BadEnding(n, last) == last = 0 \/ last > n + 1

\* mutant: the final control byte is checked as a delimiter too
unmap_step_final(n, mapped_len, unmapped_len, idx, val, out) ==
  IF (idx + 1) % (n + 1) = 0
  THEN IF val # 0
       THEN InvalidDelimiter(idx, val)
       ELSE Ok(out)
  ELSE IF Len(out) = unmapped_len
       THEN IF val # 255
            THEN InvalidPadding(idx, val)
            ELSE Ok(out)
       ELSE Ok(Append(out, Not(val)))

\* the body of the scan loop of unmap for the byte val at index idx
unmap_step(n, mapped_len, unmapped_len, idx, val, out) ==
  IF (idx + 1) % (n + 1) = 0
  THEN IF idx + 1 # mapped_len /\ val # 0
       THEN InvalidDelimiter(idx, val)
       ELSE Ok(out)
  ELSE IF Len(out) = unmapped_len
       THEN IF val # 255
            THEN InvalidPadding(idx, val)
            ELSE Ok(out)
       ELSE Ok(Append(out, Not(val)))

\* for (idx, &val) in bytes.iter().enumerate() { ... }: the iterations
\* idx = lo .. hi-1 in order; r is Ok(out) for the out built so far, or the
\* error that ended the scan (the range is halved only to keep the
\* evaluation shallow, the bytes are still visited left to right)
RECURSIVE unmap_loop(_, _, _, _, _, _, _)
unmap_loop(n, bytes, mapped_len, unmapped_len, lo, hi, r) ==
  IF r.kind # "Ok" \/ lo >= hi THEN r
  ELSE IF hi = lo + 1
       THEN unmap_step(n, mapped_len, unmapped_len, lo, bytes[lo + 1], r.val)
       ELSE LET mid == (lo + hi) \div 2
            IN unmap_loop(n, bytes, mapped_len, unmapped_len, mid, hi,
                 unmap_loop(n, bytes, mapped_len, unmapped_len, lo, mid, r))

unmap(n, bytes) ==
  IF Len(bytes) = 0 THEN EmptyBytes
  ELSE LET chunks == Len(bytes) \div (n + 1)
           mapped_len == chunks * (n + 1)
       IN IF mapped_len # Len(bytes) THEN InvalidLength(Len(bytes), n)
          ELSE IF mapped_len - 1 \notin 0..(Len(bytes) - 1) THEN Panic
          ELSE LET last == bytes[mapped_len]
               IN IF BadEnding(n, last) THEN InvalidEnding(last)
                  ELSE LET padding == last - 1
                       IN IF chunks * n < padding THEN Panic
                          ELSE unmap_loop(n, bytes, mapped_len,
                                          chunks * n - padding, 0, Len(bytes),
                                          Ok(<<>>))

---------------------------------------------------------------------------
(* The caller: one action per call *)

NoResult == [kind |-> "None"]

\* a group size and one raw input: encode, then decode the encoding
Init ==
  /\ N \in GroupSizes
  /\ a \in RawInputs
  /\ b = <<>>
  /\ y = <<>>
  /\ ma = <<>>
  /\ mb = <<>>
  /\ res = NoResult
  /\ panic = FALSE
  /\ pc = "start"

\* a group size and two raw inputs: encode both and compare
InitOrder ==
  /\ N \in GroupSizes
  /\ a \in RawInputs
  /\ b \in RawInputs
  /\ y = <<>>
  /\ ma = <<>>
  /\ mb = <<>>
  /\ res = NoResult
  /\ panic = FALSE
  /\ pc = "start"

\* a group size and an arbitrary decoder input
InitUnmap ==
  /\ \/ N \in SmallSizes /\ y \in FramedInputs
     \/ N = DefaultN /\ y \in RunInputs
  /\ a = <<>>
  /\ b = <<>>
  /\ ma = <<>>
  /\ mb = <<>>
  /\ res = NoResult
  /\ panic = FALSE
  /\ pc = "start"

\* let mapped = map(&bytes);
MapA ==
  /\ pc = "start"
  /\ ma' = map(N, a)
  /\ panic' = map_overflows(N, a)
  /\ pc' = "mapped"
  /\ UNCHANGED <<N, a, b, y, mb, res>>

\* the second operand of  map(a) > map(b)
MapB ==
  /\ pc = "mapped"
  /\ mb' = map(N, b)
  /\ panic' = (panic \/ map_overflows(N, b))
  /\ pc' = "compared"
  /\ UNCHANGED <<N, a, b, y, ma, res>>

\* let unmapped = unmap(&mapped);
UnmapMapped ==
  /\ pc = "mapped"
  /\ y' = ma
  /\ res' = unmap(N, ma)
  /\ pc' = "unmapped"
  /\ UNCHANGED <<N, a, b, ma, mb, panic>>

\* unmap(bytes) on an input of any shape
Unmap ==
  /\ pc = "start"
  /\ res' = unmap(N, y)
  /\ pc' = "unmapped"
  /\ UNCHANGED <<N, a, b, y, ma, mb, panic>>

\* map applied to the bytes a successful unmap returned
MapResult ==
  /\ pc = "unmapped"
  /\ res.kind = "Ok"
  /\ a' = res.val
  /\ ma' = map(N, res.val)
  /\ panic' = map_overflows(N, res.val)
  /\ pc' = "remapped"
  /\ UNCHANGED <<N, b, y, mb, res>>

Next == MapA \/ UnmapMapped
NextOrder == MapA \/ MapB
NextUnmap == Unmap \/ MapResult

Spec == Init /\ [][Next]_vars
SpecOrder == InitOrder /\ [][NextOrder]_vars
SpecUnmap == InitUnmap /\ [][NextUnmap]_vars

---------------------------------------------------------------------------
(* Properties of map, and of unmap after map  (Spec, SpecOrder) *)

\* the least k with k * n >= x
CeilDiv(x, n) == CHOOSE k \in 0..x : k * n >= x /\ (k - 1) * n < x

IsPrefix(s, t) == Len(s) <= Len(t) /\ \A j \in 1..Len(s) : s[j] = t[j]

\* C1: whenever a < b lexicographically (proper prefixes included),
\* map(a) > map(b) lexicographically, for every group size.
OrderInversion ==
  (pc = "compared" /\ Less(a, b)) => Less(mb, ma)

\* C1 witness: a fills exactly one block and b extends it
OrderInversionWitness ==
  /\ pc = "compared"
  /\ Len(a) = N
  /\ Len(b) > N
  /\ IsPrefix(a, b)
  /\ Less(mb, ma)

\* C2: unmap(map(x)) returns Ok(x) for every input x and group size.
RoundTrip ==
  pc = "unmapped" => (res.kind = "Ok" /\ res.val = a)

\* C2 witness: an input of exactly two full blocks came back
RoundTripWitness ==
  /\ pc = "unmapped"
  /\ Len(a) = 2 * N
  /\ y = ma
  /\ res.kind = "Ok"
  /\ res.val = a

\* C3: the length of map(x) is ceil(max(1, len x) / N) * (N + 1): a positive
\* multiple of N + 1, one block for the empty input; computing it never
\* overflows.
LengthFormula ==
  pc # "start" =>
    /\ ~panic
    /\ Len(ma) = CeilDiv(Max(1, Len(a)), N) * (N + 1)
    /\ Len(ma) > 0
    /\ Len(ma) % (N + 1) = 0
    /\ (a = <<>> => Len(ma) = N + 1)

\* C3 witness: an input whose length is a multiple of N, more than one block
LengthFormulaWitness ==
  /\ pc = "mapped"
  /\ Len(a) > N
  /\ Len(a) % N = 0
  /\ Len(ma) = (Len(a) \div N) * (N + 1)

\* C7: in map(x) of C blocks every non-final control byte is 0 and the last
\* byte is 1 + (C * N - len x); it lies in 1 .. N + 1 (so within a byte), and
\* is N + 1 exactly when x is empty.
ControlBytes ==
  pc # "start" =>
    LET C == Len(ma) \div (N + 1)
    IN /\ C >= 1
       /\ Len(ma) = C * (N + 1)
       /\ \A k \in 1..(C - 1) : ma[k * (N + 1)] = 0
       /\ ma[Len(ma)] = 1 + (C * N - Len(a))
       /\ ma[Len(ma)] \in 1..(N + 1)
       /\ ma[Len(ma)] <= 255
       /\ (ma[Len(ma)] = N + 1 <=> a = <<>>)

\* C7 witness: the largest group size with the empty input, marker 255
ControlBytesWitness ==
  /\ pc = "mapped"
  /\ N = MaxGroup
  /\ a = <<>>
  /\ ma[Len(ma)] = 255

\* suffixes appended to an encoding used as a component of a composite key
Suffixes == SeqsUpTo({0, 255}, 1)

\* C10: for a # b neither of map(a), map(b) is a prefix of the other; they
\* differ at a position inside both, and appending any suffixes does not
\* change how they compare.
PrefixFree ==
  (pc = "compared" /\ a # b) =>
    /\ ~IsPrefix(ma, mb)
    /\ ~IsPrefix(mb, ma)
    /\ \E i \in 1..Len(ma) : i <= Len(mb) /\ ma[i] # mb[i]
    /\ \A S \in Suffixes : \A T \in Suffixes :
         /\ Less(ma \o S, mb \o T) = Less(ma, mb)
         /\ Less(mb \o T, ma \o S) = Less(mb, ma)

\* C10 witness: a is a full block and a proper prefix of b
PrefixFreeWitness ==
  /\ pc = "compared"
  /\ Len(a) = N
  /\ Len(b) = N + 1
  /\ IsPrefix(a, b)
  /\ Len(mb) = 2 * Len(ma)
  /\ ~IsPrefix(ma, mb)

---------------------------------------------------------------------------
(* Properties of unmap on arbitrary inputs  (SpecUnmap) *)

Outcomes ==
  {"Ok", "EmptyBytes", "InvalidLength", "InvalidDelimiter", "InvalidPadding",
   "InvalidEnding"}

\* y passes the empty, length and ending checks
PreOk ==
  /\ Len(y) > 0
  /\ Len(y) % (N + 1) = 0
  /\ y[Len(y)] \in 1..(N + 1)

\* 0-based positions of the non-final control bytes that are not 0
BadDelims ==
  {p \in 0..(Len(y) - 1) : (p + 1) % (N + 1) = 0 /\ p + 1 # Len(y) /\ y[p + 1] # 0}

\* 0-based positions, among the last (marker - 1) payload bytes of the final
\* block, of the bytes that are not 0xFF
BadPads ==
  {p \in (Len(y) - y[Len(y)])..(Len(y) - 2) : y[p + 1] # 255}

MinOf(S) == CHOOSE p \in S : \A q \in S : p <= q

\* the j-th payload byte of y (j from 1), control bytes skipped
PayloadAt(j) == y[j + ((j - 1) \div N)]

\* C4: unmap ends, for every input, in Ok or in one of the five errors; the
\* read of the last byte is in range and chunks * N - padding does not go
\* below zero (either would end the call in a panic).
DecodeTotal ==
  pc # "start" => res.kind \in Outcomes

\* C4 witness: one block whose marker is N + 1, the subtraction gives 0
DecodeTotalWitness ==
  /\ pc = "unmapped"
  /\ Len(y) = N + 1
  /\ y[Len(y)] = N + 1
  /\ res.kind = "Ok"
  /\ res.val = <<>>

\* C5: EmptyBytes iff the input is empty; InvalidLength{len, n} iff it is
\* non-empty and its length is no multiple of N + 1; InvalidEnding{last byte}
\* iff its length is a positive multiple of N + 1 and the last byte is 0 or
\* above N + 1, whatever delimiter or padding bytes it holds.
PreScanErrors ==
  pc # "start" =>
    /\ (res.kind = "EmptyBytes" <=> Len(y) = 0)
    /\ (res.kind = "InvalidLength" <=> (Len(y) > 0 /\ Len(y) % (N + 1) # 0))
    /\ (res.kind = "InvalidLength" => (res.len = Len(y) /\ res.n = N))
    /\ (res.kind = "InvalidEnding" <=>
          /\ Len(y) > 0
          /\ Len(y) % (N + 1) = 0
          /\ (y[Len(y)] = 0 \/ y[Len(y)] > N + 1))
    /\ (res.kind = "InvalidEnding" => res.val = y[Len(y)])

\* C5 witness: a bad ending reported although a non-final control byte and a
\* payload byte of the final block are bad too
PreScanErrorsWitness ==
  /\ pc = "unmapped"
  /\ Len(y) = 2 * (N + 1)
  /\ y[N + 1] # 0
  /\ y[Len(y) - 1] # 255
  /\ res.kind = "InvalidEnding"
  /\ res.val = y[Len(y)]

\* C6: an input that passes the empty, length and ending checks fails iff a
\* non-final control byte is not 0 or one of the last (marker - 1) payload
\* bytes is not 0xFF; the error names the lowest such position and its byte,
\* so a bad delimiter wins over a bad padding byte.
FirstViolation ==
  (pc # "start" /\ PreOk) =>
    /\ (res.kind # "Ok" <=> BadDelims \cup BadPads # {})
    /\ (BadDelims \cup BadPads # {} =>
          LET p == MinOf(BadDelims \cup BadPads)
          IN /\ res.kind = IF p \in BadDelims THEN "InvalidDelimiter"
                                                ELSE "InvalidPadding"
             /\ res.pos = p
             /\ res.val = y[p + 1])
    /\ (BadDelims # {} => res.kind = "InvalidDelimiter")

\* C6 witness: both kinds of violation are present, the delimiter is reported
FirstViolationWitness ==
  /\ pc = "unmapped"
  /\ PreOk
  /\ BadDelims # {}
  /\ BadPads # {}
  /\ res.kind = "InvalidDelimiter"

\* C8: a successful unmap of C blocks with marker v returns C * N - (v - 1)
\* bytes, the complements of the first payload bytes in order; an error of
\* the scan never points at a real-data payload byte.
DecodeResult ==
  (pc # "start" /\ Len(y) > 0) =>
    LET C == Len(y) \div (N + 1)
        v == y[Len(y)]
    IN /\ res.kind = "Ok" =>
            /\ Len(res.val) = C * N - (v - 1)
            /\ \A j \in 1..Len(res.val) : res.val[j] + PayloadAt(j) = 255
       /\ res.kind \in {"InvalidDelimiter", "InvalidPadding"} =>
            \/ (res.pos + 1) % (N + 1) = 0
            \/ res.pos >= Len(y) - v

\* C8 witness: two blocks, some padding, real bytes that are not 0xFF
DecodeResultWitness ==
  /\ pc = "unmapped"
  /\ Len(y) = 2 * (N + 1)
  /\ y[Len(y)] = 2
  /\ res.kind = "Ok"
  /\ PayloadAt(1) # 255
  /\ res.val[1] = 255 - PayloadAt(1)

\* C9: whenever unmap(y) returns Ok(x), map(x) = y.
Canonical ==
  pc = "remapped" => ma = y

====
